---- MODULE Spec2Model ----
(***************************************************************************)
(* Item Loader processors of scrapy/contrib/loader/processor.py:           *)
(* the pipelines Compose and MapCompose, and the primitive processors      *)
(* Filter, Slice, TakeFirst and Identity.                                  *)
(*                                                                         *)
(* Spec      one caller at a time on one pipeline, pure stage functions.   *)
(* SpecConc  two callers interleaved on one pipeline, stage functions that *)
(*           may write to the context they are handed.                     *)
(* SpecPrim  the primitive processors, called once and then again on       *)
(*           their own output.                                             *)
(***************************************************************************)
EXTENDS Integers, Sequences, FiniteSets, TLC

\* Longest function list a pipeline is built with.
MaxFuncs == 2
\* Longest input sequence handed to a primitive processor.
MaxLen == 3
\* Number of callers that may be inside the same pipeline at once.
NThreads == 2

VARIABLES
    class,                   \* "Compose" or "MapCompose": which pipeline was built
    functions,               \* self.functions
    stop_on_none,            \* self.stop_on_none (Compose only)
    default_loader_context,  \* self.default_loader_context: the stored dict object
    kwargs0,                 \* the **default_loader_context given to __init__
    functions0,              \* the *functions given to __init__
    threads,                 \* the callers that exist
    frame,                   \* per caller: the locals of its __call__ in progress
    proc,                    \* a primitive processor object
    pcall                    \* the caller's use of the primitive processor

pipeVars == <<class, functions, stop_on_none, default_loader_context,
              kwargs0, functions0, threads, frame>>
primVars == <<proc, pcall>>
vars == <<class, functions, stop_on_none, default_loader_context,
          kwargs0, functions0, threads, frame, proc, pcall>>

----------------------------------------------------------------------------
(* Python values: None and scalars are atoms; list and tuple keep their    *)
(* type, so that tuple(...) and slicing are not the identity.              *)

Atom(a) == [kind |-> "atom", atom |-> a, elems |-> <<>>]
List(s) == [kind |-> "list", atom |-> "n/a", elems |-> s]
Tuple(s) == [kind |-> "tuple", atom |-> "n/a", elems |-> s]
None == Atom("None")

IsSeq(v) == v.kind \in {"list", "tuple"}

\* scrapy.utils.misc.arg_to_iter: None -> [], an iterable as it is, a scalar -> [scalar]
arg_to_iter(arg) ==
    IF arg = None THEN List(<<>>)
    ELSE IF IsSeq(arg) THEN arg
    ELSE List(<<arg>>)

----------------------------------------------------------------------------
(* Dicts are functions from a set of keys to strings.  A loader_context    *)
(* argument is None or a dict.                                             *)

EmptyDict == [k \in {} |-> "n/a"]
NoCtx == [none |-> TRUE, d |-> EmptyDict]
Ctx(d) == [none |-> FALSE, d |-> d]

\* "if loader_context:" - None and the empty dict are falsy
CtxTruthy(lc) == ~lc.none /\ DOMAIN lc.d # {}

\* scrapy.utils.datatypes.MergeDict(a, b): a lookup tries a, then b
MergeDict(a, b) ==
    [k \in DOMAIN a \cup DOMAIN b |-> IF k \in DOMAIN a THEN a[k] ELSE b[k]]

\* The object "context" is bound to: the MergeDict over the two dict objects,
\* or the pipeline's own stored dict.
ContextSwapped(lc) ==
    IF CtxTruthy(lc)
    THEN <<"MergeDict", "self.default_loader_context", "loader_context">>
    ELSE <<"self.default_loader_context">>

Context(lc) ==
    IF CtxTruthy(lc)
    THEN <<"MergeDict", "loader_context", "self.default_loader_context">>
    ELSE <<"self.default_loader_context">>

\* What a lookup through the object sees, given the dicts as they are now.
Obj(name, lc, defaults) == IF name = "loader_context" THEN lc.d ELSE defaults
Deref(ref, lc, defaults) ==
    IF Len(ref) = 1 THEN defaults
    ELSE MergeDict(Obj(ref[2], lc, defaults), Obj(ref[3], lc, defaults))

----------------------------------------------------------------------------
(* The stage functions a caller may build a pipeline from.                 *)
(*   f_none   lambda v: None                                               *)
(*   f_empty  lambda v: []                                                 *)
(*   f_dup    lambda v: [v, v]                                             *)
(*   f_unit   lambda v, loader_context: loader_context.get('unit')         *)
(*   f_mark   def f(v, loader_context): loader_context['unit'] = 'in';     *)
(*            return v                                                     *)

PureFuncs == {"f_none", "f_empty", "f_dup", "f_unit"}
WritingFuncs == {"f_mark"}
ContextAware == {"f_unit", "f_mark"}

\* scrapy.contrib.loader.common.wrap_loader_context: bind the context if the
\* function declares a loader_context parameter, else the function as it is
wrap_loader_context(f, context) ==
    IF f \in ContextAware
    THEN [fn |-> f, bound |-> TRUE, context |-> context]
    ELSE [fn |-> f, bound |-> FALSE, context |-> <<>>]

\* One invocation func(v) of a wrapped function: what it returns, whether it
\* raises, and the stored defaults dict afterwards.
Invoke(w, v, lc, defaults, stage) ==
    LET view == IF w.bound THEN Deref(w.context, lc, defaults) ELSE EmptyDict
        ret == CASE w.fn = "f_none" -> None
                 [] w.fn = "f_empty" -> List(<<>>)
                 [] w.fn = "f_dup" -> List(<<v, v>>)
                 [] w.fn = "f_unit" ->
                        IF "unit" \in DOMAIN view THEN Atom(view["unit"]) ELSE None
                 [] OTHER -> v
        writes == w.fn \in WritingFuncs
    IN  [ret |-> ret,
         \* a MergeDict has no __setitem__: the write raises TypeError
         raised |-> writes /\ Len(w.context) # 1,
         defaults |-> IF writes /\ Len(w.context) = 1
                      THEN [k \in DOMAIN defaults \cup {"unit"} |->
                              IF k = "unit" THEN "in" ELSE defaults[k]]
                      ELSE defaults,
         entry |-> [stage |-> stage, fn |-> w.fn, arg |-> v, bound |-> w.bound,
                    ref |-> w.context, ctx |-> view, ret |-> ret]]

----------------------------------------------------------------------------
(* Construction.                                                           *)

Callers == 1 .. NThreads

FuncLists(S) == UNION {[1 .. n -> S] : n \in 0 .. MaxFuncs}

Kwargs ==
    { EmptyDict,
      "unit" :> "cm",
      "stop_on_none" :> "False",
      ("unit" :> "cm") @@ ("stop_on_none" :> "False") }

\* Compose.__init__: default_loader_context.get('stop_on_none', True)
InitStopAlways(kwargs) == TRUE

InitStopDefaultFalse(kwargs) ==
    IF "stop_on_none" \in DOMAIN kwargs THEN kwargs["stop_on_none"] = "True" ELSE FALSE

InitStop(kwargs) ==
    IF "stop_on_none" \in DOMAIN kwargs THEN kwargs["stop_on_none"] = "True" ELSE TRUE

IdleFrame ==
    [pc |-> "idle", arg |-> None, loader_context |-> NoCtx, context |-> <<>>,
     wrapped_funcs |-> <<>>, i |-> 0, j |-> 0, value |-> None,
     next_values |-> <<>>, log |-> <<>>, result |-> None]

NoneArg == [none |-> TRUE, n |-> 0]
IntArg(n) == [none |-> FALSE, n |-> n]

NoProc == [cls |-> "none", given |-> "n/a", function |-> "n/a",
           begin |-> NoneArg, end |-> NoneArg]
IdleCall == [pc |-> "idle", values |-> None, idx |-> 0, tested |-> 0,
             result |-> None, first |-> None, input |-> None]

Construct(cls, fs, kwargs) ==
    /\ class = cls
    /\ functions = fs
    /\ functions0 = fs
    /\ stop_on_none = IF cls = "Compose" THEN InitStop(kwargs) ELSE FALSE
    /\ default_loader_context = kwargs
    /\ kwargs0 = kwargs
    /\ frame = [c \in Callers |-> IdleFrame]

Init ==
    /\ \E cls \in {"Compose", "MapCompose"}, fs \in FuncLists(PureFuncs),
          kwargs \in Kwargs : Construct(cls, fs, kwargs)
    /\ threads = {1}
    /\ proc = NoProc
    /\ pcall = IdleCall

InitConc ==
    /\ \E cls \in {"Compose", "MapCompose"},
          fs \in FuncLists({"f_unit", "f_mark"}),
          kwargs \in {EmptyDict, "unit" :> "cm"} : Construct(cls, fs, kwargs)
    /\ threads = Callers
    /\ proc = NoProc
    /\ pcall = IdleCall

----------------------------------------------------------------------------
(* Calls of a pipeline.                                                    *)

Values == { None, Atom("A"), List(<<>>), List(<<Atom("A"), None>>),
            Tuple(<<Atom("A")>>) }

LoaderContexts ==
    { NoCtx, Ctx(EmptyDict), Ctx("unit" :> "in"),
      Ctx("stop_on_none" :> "True"), Ctx("stop_on_none" :> "False") }

Enter(c, value, lc, start) ==
    frame' = [frame EXCEPT ![c] =
        [IdleFrame EXCEPT
           !.pc = "loop", !.arg = value, !.loader_context = lc,
           !.context = Context(lc),
           !.wrapped_funcs = [k \in 1 .. Len(functions) |->
                                wrap_loader_context(functions[k], Context(lc))],
           !.i = 1, !.j = 1, !.value = start]]

\* Compose.__call__, up to the loop
ComposeCall(c) ==
    /\ class = "Compose"
    /\ c \in threads
    /\ frame[c].pc = "idle"
    /\ \E value \in Values, lc \in LoaderContexts : Enter(c, value, lc, value)
    /\ UNCHANGED <<class, functions, stop_on_none, default_loader_context,
                   kwargs0, functions0, threads, primVars>>

\* "if value is None and self.stop_on_none: break"
ComposeStopsOnEmpty(value, stop) == arg_to_iter(value).elems = <<>> /\ stop

ComposeStops(value, stop) == value = None /\ stop

ComposeIter(c, stop) ==
    LET f == frame[c] IN
    /\ class = "Compose"
    /\ f.pc = "loop"
    /\ IF f.i > Len(f.wrapped_funcs) \/ ComposeStops(f.value, stop)
       THEN /\ frame' = [frame EXCEPT ![c].pc = "done", ![c].result = f.value]
            /\ UNCHANGED default_loader_context
       ELSE LET r == Invoke(f.wrapped_funcs[f.i], f.value, f.loader_context,
                            default_loader_context, f.i)
            IN  /\ frame' = [frame EXCEPT
                       ![c].pc = IF r.raised THEN "raised" ELSE "loop",
                       ![c].value = IF r.raised THEN f.value ELSE r.ret,
                       ![c].i = f.i + 1,
                       ![c].log = Append(f.log, r.entry)]
                /\ default_loader_context' = r.defaults
    /\ UNCHANGED <<class, functions, stop_on_none, kwargs0, functions0,
                   threads, primVars>>

\* the flag as a bug would read it: from the context of the call
ComposeStepCtxFlag(c) ==
    LET view == Deref(frame[c].context, frame[c].loader_context,
                      default_loader_context)
    IN  ComposeIter(c, InitStop(view))

\* one iteration of Compose.__call__'s loop, or its return
ComposeStep(c) == ComposeIter(c, stop_on_none)

\* MapCompose.__call__, up to the loops
MapComposeCall(c) ==
    /\ class = "MapCompose"
    /\ c \in threads
    /\ frame[c].pc = "idle"
    /\ \E value \in Values, lc \in LoaderContexts :
          Enter(c, value, lc, arg_to_iter(value))
    /\ UNCHANGED <<class, functions, stop_on_none, default_loader_context,
                   kwargs0, functions0, threads, primVars>>

\* "next_values += arg_to_iter(func(v))"
ExtendRaw(next_values, ret) == Append(next_values, ret)

Extend(next_values, ret) == next_values \o arg_to_iter(ret).elems

\* one func(v) of MapCompose.__call__'s inner loop, the step to the next
\* function when the values are used up, or the return
MapComposeStep(c) ==
    LET f == frame[c] IN
    /\ class = "MapCompose"
    /\ f.pc = "loop"
    /\ IF f.i > Len(f.wrapped_funcs)
       THEN /\ frame' = [frame EXCEPT ![c].pc = "done", ![c].result = f.value]
            /\ UNCHANGED default_loader_context
       ELSE IF f.j > Len(f.value.elems)
       THEN /\ frame' = [frame EXCEPT ![c].value = List(f.next_values),
                                      ![c].next_values = <<>>,
                                      ![c].i = f.i + 1, ![c].j = 1]
            /\ UNCHANGED default_loader_context
       ELSE LET r == Invoke(f.wrapped_funcs[f.i], f.value.elems[f.j],
                            f.loader_context, default_loader_context, f.i)
            IN  /\ frame' = [frame EXCEPT
                       ![c].pc = IF r.raised THEN "raised" ELSE "loop",
                       ![c].next_values =
                           IF r.raised THEN f.next_values
                           ELSE Extend(f.next_values, r.ret),
                       ![c].j = f.j + 1,
                       ![c].log = Append(f.log, r.entry)]
                /\ default_loader_context' = r.defaults
    /\ UNCHANGED <<class, functions, stop_on_none, kwargs0, functions0,
                   threads, primVars>>

\* the caller has its result (or its exception) and drops the frame
Finish(c) ==
    /\ frame[c].pc \in {"done", "raised"}
    /\ frame' = [frame EXCEPT ![c] = IdleFrame]
    /\ UNCHANGED <<class, functions, stop_on_none, default_loader_context,
                   kwargs0, functions0, threads, primVars>>

Next ==
    \E c \in Callers :
        \/ ComposeCall(c)
        \/ ComposeStep(c)
        \/ MapComposeCall(c)
        \/ MapComposeStep(c)
        \/ Finish(c)

Spec == Init /\ [][Next]_vars

SpecConc == InitConc /\ [][Next]_vars

----------------------------------------------------------------------------
(* The primitive processors.  A predicate argument is "default" (the       *)
(* argument left out), "None" (None given) or "not_A" (a caller's pure     *)
(* function, lambda v: v != 'A').                                          *)

Predicates == {"default", "None", "not_A"}

\* the default argument: lambda v: v is not None and v != ''
DefaultFunctionBool(v) == v \notin {None, Atom(""), Atom("0"), Atom("0.0")}

DefaultFunction(v) == v # None /\ v # Atom("")

\* bool(v)
Bool(v) ==
    IF IsSeq(v) THEN v.elems # <<>>
    ELSE v.atom \notin {"None", "0", "0.0", ""}

\* self.function(v), for a function that is not None
CallFunction(function, v) ==
    CASE function = "default" -> DefaultFunction(v)
      [] function = "bool" -> Bool(v)
      [] function = "not_A" -> v # Atom("A")

\* the builtin filter(function, iterable): function None keeps the truthy items
RECURSIVE builtin_filter(_, _)
builtin_filter(function, s) ==
    IF s = <<>> THEN <<>>
    ELSE LET keep == IF function = "None" THEN Bool(Head(s))
                     ELSE CallFunction(function, Head(s))
         IN  (IF keep THEN <<Head(s)>> ELSE <<>>) \o builtin_filter(function, Tail(s))

\* Filter.__init__: the function is stored as given
FilterInit(given) ==
    [cls |-> "Filter", given |-> given, function |-> given,
     begin |-> NoneArg, end |-> NoneArg]

\* TakeFirst.__init__: self.function = bool if function is None else function
TakeFirstInitKeepsNone(given) ==
    [cls |-> "TakeFirst", given |-> given,
     function |-> IF given = "None" THEN "default" ELSE given,
     begin |-> NoneArg, end |-> NoneArg]

TakeFirstInit(given) ==
    [cls |-> "TakeFirst", given |-> given,
     function |-> IF given = "None" THEN "bool" ELSE given,
     begin |-> NoneArg, end |-> NoneArg]

\* Slice.__init__
SliceInit(begin, end) ==
    [cls |-> "Slice", given |-> "n/a", function |-> "n/a",
     begin |-> begin, end |-> end]

IdentityInit == [cls |-> "Identity", given |-> "n/a", function |-> "n/a",
                 begin |-> NoneArg, end |-> NoneArg]

Min(a, b) == IF a < b THEN a ELSE b
Max(a, b) == IF a > b THEN a ELSE b

\* Python's reading of a slice bound against a length n: None is the given
\* end, a negative bound counts from the end, and the bound is clamped
SliceBoundFromStart(b, n, ifNone) ==
    IF b.none THEN ifNone
    ELSE IF b.n < 0 THEN Min(-b.n, n)
    ELSE Min(b.n, n)

SliceBound(b, n, ifNone) ==
    IF b.none THEN ifNone
    ELSE IF b.n < 0 THEN Max(b.n + n, 0)
    ELSE Min(b.n, n)

\* values[begin:end], of the type of values
Slicing(values, begin, end) ==
    LET n == Len(values.elems)
        lo == SliceBound(begin, n, 0)
        hi == SliceBound(end, n, n)
    IN  [values EXCEPT !.elems = IF lo < hi THEN SubSeq(values.elems, lo + 1, hi)
                                 ELSE <<>>]

\* tuple(filter(self.function, values))
FilterResult(function, values) == Tuple(builtin_filter(function, values.elems))

SliceArgs == {NoneArg} \cup {IntArg(n) : n \in -(MaxLen + 1) .. (MaxLen + 1)}

Procs ==
    {IdentityInit}
    \cup {FilterInit(g) : g \in Predicates}
    \cup {TakeFirstInit(g) : g \in Predicates}
    \cup {SliceInit(b, e) : b \in SliceArgs, e \in SliceArgs}

PrimAtoms == {Atom("None"), Atom("0"), Atom(""), Atom("A")}

\* the docstrings' example: ['A', 0, '', 0.0, None, -1]
DocExample == <<Atom("A"), Atom("0"), Atom(""), Atom("0.0"), None, Atom("-1")>>

PrimInputs ==
    LET seqs == UNION {[1 .. n -> PrimAtoms] : n \in 0 .. MaxLen} \cup {DocExample}
    IN  {List(s) : s \in seqs} \cup {Tuple(s) : s \in seqs}

InitPrim ==
    /\ Construct("Compose", <<>>, EmptyDict)
    /\ threads = {}
    /\ proc \in Procs
    /\ pcall = IdleCall

\* The processor is called on a fresh input, or once more on its own result.
Called(values, result) ==
    /\ \/ pcall.pc = "idle" /\ values \in PrimInputs
       \/ pcall.pc = "done" /\ values = pcall.result
    /\ pcall' = [pcall EXCEPT
           !.pc = IF pcall.pc = "idle" THEN "done" ELSE "redone",
           !.values = values, !.result = result,
           !.input = IF pcall.pc = "idle" THEN values ELSE pcall.input,
           !.first = IF pcall.pc = "idle" THEN result ELSE pcall.first]

\* Identity.__call__
IdentityCall ==
    /\ proc.cls = "Identity"
    /\ \E values \in PrimInputs \cup {pcall.result} : Called(values, values)
    /\ UNCHANGED <<proc, pipeVars>>

\* Filter.__call__
FilterCall ==
    /\ proc.cls = "Filter"
    /\ \E values \in PrimInputs \cup {pcall.result} :
          Called(values, FilterResult(proc.function, values))
    /\ UNCHANGED <<proc, pipeVars>>

\* Slice.__call__
SliceCall ==
    /\ proc.cls = "Slice"
    /\ \E values \in PrimInputs \cup {pcall.result} :
          Called(values, Slicing(values, proc.begin, proc.end))
    /\ UNCHANGED <<proc, pipeVars>>

\* TakeFirst.__call__: entering the loop
TakeFirstCall ==
    /\ proc.cls = "TakeFirst"
    /\ pcall.pc = "idle"
    /\ \E values \in PrimInputs :
          pcall' = [pcall EXCEPT !.pc = "scan", !.values = values,
                                 !.input = values, !.idx = 1]
    /\ UNCHANGED <<proc, pipeVars>>

\* TakeFirst.__call__: one iteration of the loop, or falling off its end
TakeFirstStep ==
    /\ proc.cls = "TakeFirst"
    /\ pcall.pc = "scan"
    /\ IF pcall.idx > Len(pcall.values.elems)
       THEN pcall' = [pcall EXCEPT !.pc = "done", !.result = None]
       ELSE IF CallFunction(proc.function, pcall.values.elems[pcall.idx])
       THEN pcall' = [pcall EXCEPT !.pc = "done", !.tested = pcall.tested + 1,
                                   !.result = pcall.values.elems[pcall.idx]]
       ELSE pcall' = [pcall EXCEPT !.idx = pcall.idx + 1,
                                   !.tested = pcall.tested + 1]
    /\ UNCHANGED <<proc, pipeVars>>

NextPrim ==
    \/ IdentityCall
    \/ FilterCall
    \/ SliceCall
    \/ TakeFirstCall
    \/ TakeFirstStep

SpecPrim == InitPrim /\ [][NextPrim]_vars

----------------------------------------------------------------------------
(* Reference runs: a call executed alone, start to end, as a function of   *)
(* its arguments.  They thread the stored defaults dict through the        *)
(* invocations, since a function may write to it.                          *)

Wrapped(fs, lc) == [k \in 1 .. Len(fs) |-> wrap_loader_context(fs[k], Context(lc))]

RECURSIVE RefCompose(_, _, _, _, _, _)
RefCompose(ws, value, stop, lc, d, args) ==
    IF ws = <<>> \/ (value = None /\ stop)
    THEN [raised |-> FALSE, result |-> value, args |-> args, defaults |-> d]
    ELSE LET r == Invoke(Head(ws), value, lc, d, 0)
         IN  IF r.raised
             THEN [raised |-> TRUE, result |-> None,
                   args |-> Append(args, value), defaults |-> r.defaults]
             ELSE RefCompose(Tail(ws), r.ret, stop, lc, r.defaults,
                             Append(args, value))

\* one stage over the elements es, accumulating into acc
RECURSIVE RefStage(_, _, _, _, _)
RefStage(w, es, lc, d, acc) ==
    IF es = <<>> THEN [raised |-> FALSE, out |-> acc, defaults |-> d]
    ELSE LET r == Invoke(w, Head(es), lc, d, 0)
         IN  IF r.raised THEN [raised |-> TRUE, out |-> acc, defaults |-> r.defaults]
             ELSE RefStage(w, Tail(es), lc, r.defaults,
                           acc \o arg_to_iter(r.ret).elems)

RECURSIVE RefMapCompose(_, _, _, _)
RefMapCompose(ws, values, lc, d) ==
    IF ws = <<>> THEN [raised |-> FALSE, result |-> values, defaults |-> d]
    ELSE LET st == RefStage(Head(ws), values.elems, lc, d, <<>>)
         IN  IF st.raised
             THEN [raised |-> TRUE, result |-> None, defaults |-> st.defaults]
             ELSE RefMapCompose(Tail(ws), List(st.out), lc, st.defaults)

\* the value entering stage k of the Compose call in frame f
Incoming(f, k) == IF k = 1 THEN f.arg ELSE f.log[k - 1].ret

InCompose(c) == class = "Compose" /\ frame[c].pc \in {"loop", "done"}
InMapCompose(c) == class = "MapCompose" /\ frame[c].pc \in {"loop", "done"}

\* the runtime context of a call as a dict: None counts as no keys
Runtime(f) == IF f.loader_context.none THEN EmptyDict ELSE f.loader_context.d

----------------------------------------------------------------------------
(* C1: a Compose pipeline built with stop_on_none left at its default      *)
(* invokes its functions strictly in list order, each at most once, each   *)
(* on the previous function's result and never on None; it stops before    *)
(* the first stage whose incoming value is None, and then returns None.    *)
C1_ComposeStopsAtFirstNone ==
    \A c \in Callers :
        (InCompose(c) /\ "stop_on_none" \notin DOMAIN kwargs0) =>
            LET f == frame[c]
                n == Len(f.log)
            IN  /\ n <= Len(functions0)
                /\ \A k \in 1 .. n :
                      /\ f.log[k].stage = k
                      /\ f.log[k].fn = functions0[k]
                      /\ f.log[k].arg = Incoming(f, k)
                      /\ f.log[k].arg # None
                /\ f.pc = "done" =>
                      /\ f.result = Incoming(f, n + 1)
                      /\ n < Len(functions0) =>
                            Incoming(f, n + 1) = None /\ f.result = None

\* Compose(f, g)(v) where f(v) is None: f was invoked, g was not, None is returned.
C1_Witness ==
    \E c \in Callers :
        /\ InCompose(c) /\ "stop_on_none" \notin DOMAIN kwargs0
        /\ frame[c].pc = "done"
        /\ Len(functions0) = 2
        /\ Len(frame[c].log) = 1
        /\ frame[c].arg # None
        /\ frame[c].log[1].ret = None
        /\ frame[c].result = None

(* C2: a Compose pipeline built with stop_on_none=False invokes every      *)
(* function exactly once, in list order, each on the previous result, also *)
(* when a value is None; the result is the last function's return value.   *)
C2_ComposeNoStopRunsAll ==
    \A c \in Callers :
        (/\ InCompose(c)
         /\ "stop_on_none" \in DOMAIN kwargs0
         /\ kwargs0["stop_on_none"] = "False") =>
            LET f == frame[c]
                n == Len(f.log)
            IN  /\ n <= Len(functions0)
                /\ \A k \in 1 .. n :
                      /\ f.log[k].stage = k
                      /\ f.log[k].fn = functions0[k]
                      /\ f.log[k].arg = Incoming(f, k)
                /\ f.pc = "done" =>
                      /\ n = Len(functions0)
                      /\ f.result = Incoming(f, n + 1)

\* Compose(f, g, stop_on_none=False)(None) has returned g(f(None)).
C2_Witness ==
    \E c \in Callers :
        /\ InCompose(c)
        /\ "stop_on_none" \in DOMAIN kwargs0 /\ kwargs0["stop_on_none"] = "False"
        /\ frame[c].pc = "done"
        /\ frame[c].arg = None
        /\ Len(functions0) = 2
        /\ Len(frame[c].log) = 2
        /\ frame[c].log[1].arg = None
        /\ frame[c].log[2].arg = frame[c].log[1].ret
        /\ frame[c].result = frame[c].log[2].ret

----------------------------------------------------------------------------
\* the concatenation, in order, of the normalized results of fn on each element
RECURSIVE C3_StageOutput(_, _, _)
C3_StageOutput(w, es, f) ==
    IF es = <<>> THEN <<>>
    ELSE arg_to_iter(Invoke(w, Head(es), f.loader_context, kwargs0, 0).ret).elems
         \o C3_StageOutput(w, Tail(es), f)

\* the working sequence after the first n stages
RECURSIVE C3_Working(_, _)
C3_Working(f, n) ==
    IF n = 0 THEN arg_to_iter(f.arg)
    ELSE List(C3_StageOutput(f.wrapped_funcs[n], C3_Working(f, n - 1).elems, f))

(* C3: MapCompose is a flatten-map, one stage at a time: the working       *)
(* sequence starts as the normalized input, each stage replaces it by the  *)
(* concatenation of the normalized results of its function on every        *)
(* element, a stage is applied to all elements before the next starts,     *)
(* and the working sequence after the last stage is returned.              *)
C3_MapComposeFlattenMap ==
    \A c \in Callers :
        InMapCompose(c) =>
            LET f == frame[c]
                stages == Len(functions0)
            IN  /\ f.value = C3_Working(f, f.i - 1)
                /\ \A k \in 1 .. Len(f.log) :
                      /\ f.log[k].fn = functions0[f.log[k].stage]
                      /\ k > 1 => f.log[k - 1].stage <= f.log[k].stage
                /\ \A k \in 1 .. stages :
                      k < f.i =>
                          Cardinality({m \in 1 .. Len(f.log) : f.log[m].stage = k})
                              = Len(C3_Working(f, k - 1).elems)
                /\ f.pc = "done" => f.result = C3_Working(f, stages)

\* MapCompose(f_dup)(['A', None]) has returned ['A', 'A', None, None].
C3_Witness ==
    \E c \in Callers :
        /\ InMapCompose(c)
        /\ frame[c].pc = "done"
        /\ functions0 = <<"f_dup">>
        /\ frame[c].arg = List(<<Atom("A"), None>>)
        /\ frame[c].result = List(<<Atom("A"), Atom("A"), None, None>>)

----------------------------------------------------------------------------
(* C4: in every call of a Compose or MapCompose pipeline, a function that  *)
(* declares a context parameter receives the merged context: each key of   *)
(* the runtime context with the runtime value, each key only in the        *)
(* defaults with the default value, and the defaults themselves when the   *)
(* runtime context is None or empty; a function that does not declare the  *)
(* parameter is called with the value only.                                *)
C4_MergedContext ==
    \A c \in Callers :
        (InCompose(c) \/ InMapCompose(c)) =>
            LET f == frame[c]
                rt == Runtime(f)
            IN  \A k \in 1 .. Len(f.log) :
                    LET e == f.log[k] IN
                    IF e.fn \in ContextAware
                    THEN /\ e.bound
                         /\ DOMAIN e.ctx = DOMAIN rt \cup DOMAIN kwargs0
                         /\ \A key \in DOMAIN rt : e.ctx[key] = rt[key]
                         /\ \A key \in DOMAIN kwargs0 \ DOMAIN rt :
                               e.ctx[key] = kwargs0[key]
                         /\ rt = EmptyDict => e.ctx = kwargs0
                    ELSE ~e.bound /\ e.ctx = EmptyDict

\* A pipeline built with unit='cm', called with {'unit': 'in'}: the function saw 'in'.
C4_Witness ==
    \E c \in Callers :
        /\ frame[c].pc = "done"
        /\ "unit" \in DOMAIN kwargs0 /\ kwargs0["unit"] = "cm"
        /\ frame[c].loader_context = Ctx("unit" :> "in")
        /\ \E k \in 1 .. Len(frame[c].log) :
              /\ frame[c].log[k].fn = "f_unit"
              /\ frame[c].log[k].ctx["unit"] = "in"
              /\ frame[c].log[k].ret = Atom("in")

----------------------------------------------------------------------------
\* whether an element matches, by the predicate argument the processor was built with
C5_Matches(given, v) ==
    CASE given = "default" -> v.atom \notin {"None", ""}
      [] given = "None" -> v.atom \notin {"None", "", "0", "0.0"}
      [] given = "not_A" -> v # Atom("A")

C5_MatchingIndexes ==
    {k \in 1 .. Len(pcall.values.elems) : C5_Matches(proc.given, pcall.values.elems[k])}

(* C5: TakeFirst returns the first element, in order, on which the         *)
(* predicate is truthy, and None when there is none; the default predicate *)
(* matches all but None and '', the predicate None matches the truthy      *)
(* elements; no element after the returned one is tested.                  *)
C5_TakeFirstReturnsFirstMatch ==
    (proc.cls = "TakeFirst" /\ pcall.pc = "done") =>
        IF C5_MatchingIndexes = {}
        THEN pcall.result = None /\ pcall.tested = Len(pcall.values.elems)
        ELSE LET first == CHOOSE k \in C5_MatchingIndexes :
                              \A m \in C5_MatchingIndexes : k <= m
             IN  /\ pcall.result = pcall.values.elems[first]
                 /\ pcall.tested = first

\* TakeFirst(None)((0, 'A', 'A')) has returned 'A' after two tests.
C5_Witness ==
    /\ proc.cls = "TakeFirst" /\ proc.given = "None"
    /\ pcall.pc = "done"
    /\ pcall.values = Tuple(<<Atom("0"), Atom("A"), Atom("A")>>)
    /\ pcall.result = Atom("A")
    /\ pcall.tested = 2

(* C6: Filter returns, as a tuple, exactly the elements on which the       *)
(* predicate is truthy, in their order and with their multiplicity; the    *)
(* default predicate keeps all but None and '', the predicate None keeps   *)
(* the truthy elements: Filter(None)(['A', 0, '', 0.0, None, -1]) is       *)
(* ('A', -1).                                                              *)
C6_FilterKeepsMatches ==
    (proc.cls = "Filter" /\ pcall.pc \in {"done", "redone"}) =>
        LET Keep(v) == C5_Matches(proc.given, v)
        IN  /\ pcall.result = Tuple(SelectSeq(pcall.values.elems, Keep))
            /\ (proc.given = "None" /\ pcall.values.elems = DocExample) =>
                  pcall.result = Tuple(<<Atom("A"), Atom("-1")>>)
            /\ (proc.given = "default" /\ pcall.values.elems = DocExample) =>
                  pcall.result =
                      Tuple(<<Atom("A"), Atom("0"), Atom("0.0"), Atom("-1")>>)

\* Filter()(['A', 0, '', 0.0, None, -1]) has returned ('A', 0, 0.0, -1).
C6_Witness ==
    /\ proc.cls = "Filter" /\ proc.given = "default"
    /\ pcall.pc = "done"
    /\ pcall.values = List(DocExample)
    /\ pcall.result = Tuple(<<Atom("A"), Atom("0"), Atom("0.0"), Atom("-1")>>)

----------------------------------------------------------------------------
(* C7 as stated: Identity, Slice (any begin and end) and Filter give, on   *)
(* their own output, the result they gave the first time.                  *)
C7_Original ==
    (proc.cls \in {"Identity", "Slice", "Filter"} /\ pcall.pc = "redone") =>
        pcall.result = pcall.first

(* C7, amended: Identity and Filter with a pure predicate are idempotent;  *)
(* Slice is idempotent when begin is None, zero or negative and end is     *)
(* None or non-negative.                                                   *)
C7_IdempotentWhenAnchored ==
    (/\ pcall.pc = "redone"
     /\ \/ proc.cls \in {"Identity", "Filter"}
        \/ /\ proc.cls = "Slice"
           /\ proc.begin.none \/ proc.begin.n <= 0
           /\ proc.end.none \/ proc.end.n >= 0) =>
        pcall.result = pcall.first

\* Slice(-2, 2) applied twice to a three-element list: [b] both times.
C7_Witness ==
    /\ proc.cls = "Slice"
    /\ proc.begin = IntArg(-2) /\ proc.end = IntArg(2)
    /\ pcall.pc = "redone"
    /\ Len(pcall.input.elems) = 3
    /\ pcall.first.elems = <<pcall.input.elems[2]>>
    /\ pcall.result = pcall.first

----------------------------------------------------------------------------
\* what the call in frame f returns when it runs alone on the pipeline as built
AloneResult(f) ==
    IF class = "Compose"
    THEN RefCompose(Wrapped(functions0, f.loader_context), f.arg,
                    InitStop(kwargs0), f.loader_context, kwargs0, <<>>).result
    ELSE RefMapCompose(Wrapped(functions0, f.loader_context), arg_to_iter(f.arg),
                       f.loader_context, kwargs0).result

(* C8 as stated: no call changes the pipeline's function list or default   *)
(* context; the context handed to the functions is built for the call and  *)
(* is not the pipeline's own stored defaults; each concurrent call returns *)
(* what it would return if run alone.                                      *)
C8_Original ==
    /\ functions = functions0
    /\ default_loader_context = kwargs0
    /\ \A c \in Callers :
          /\ frame[c].pc # "idle" =>
                frame[c].context # <<"self.default_loader_context">>
          /\ frame[c].pc = "done" => frame[c].result = AloneResult(frame[c])

----------------------------------------------------------------------------
\* empty under the coercion rule of MapCompose: None or an empty sequence
C9_Empty(v) == arg_to_iter(v).elems = <<>>

(* C9 as stated: with stop_on_none active, Compose invokes no function on  *)
(* a value that is empty under arg_to_iter (None or an empty sequence).    *)
C9_Original ==
    \A c \in Callers :
        (InCompose(c) /\ stop_on_none) =>
            \A k \in 1 .. Len(frame[c].log) : ~C9_Empty(frame[c].log[k].arg)

(* C9, amended: with stop_on_none active, Compose stops only when the      *)
(* value entering a stage is None; an empty sequence entering a stage does *)
(* not stop the chain, and the stage's function is invoked on it.          *)
C9_StopsOnNoneOnly ==
    \A c \in Callers :
        (InCompose(c) /\ stop_on_none /\ frame[c].pc = "done") =>
            LET f == frame[c]
                n == Len(f.log)
            IN  \A k \in 1 .. Len(functions0) :
                    k <= n + 1 =>
                        /\ Incoming(f, k) = None => k = n + 1
                        /\ Incoming(f, k) # None =>
                              k <= n /\ f.log[k].arg = Incoming(f, k)

\* With stop_on_none active, the second function was invoked on [].
C9_Witness ==
    \E c \in Callers :
        /\ InCompose(c) /\ stop_on_none
        /\ frame[c].pc = "done"
        /\ Len(frame[c].log) = 2
        /\ frame[c].log[1].ret = List(<<>>)
        /\ frame[c].log[2].arg = List(<<>>)

----------------------------------------------------------------------------
\* the loader_context of frame f without its stop_on_none key
C10_WithoutKey(f) ==
    IF f.loader_context.none THEN NoCtx
    ELSE Ctx([key \in DOMAIN f.loader_context.d \ {"stop_on_none"} |->
                f.loader_context.d[key]])

(* C10: Compose's short-circuit flag comes from the constructor's named    *)
(* parameters only: a stop_on_none key in the runtime context changes      *)
(* neither the values the functions are invoked on nor the result, though  *)
(* the functions see the runtime value in the context they receive.        *)
C10_RuntimeFlagIgnored ==
    \A c \in Callers :
        (InCompose(c) /\ frame[c].pc = "done") =>
            LET f == frame[c]
                lc == C10_WithoutKey(f)
                ref == RefCompose(Wrapped(functions0, lc), f.arg,
                                  InitStop(kwargs0), lc, kwargs0, <<>>)
            IN  /\ f.result = ref.result
                /\ [k \in 1 .. Len(f.log) |-> f.log[k].arg] = ref.args
                /\ \A k \in 1 .. Len(f.log) :
                      (f.log[k].bound /\ "stop_on_none" \in DOMAIN Runtime(f)) =>
                          f.log[k].ctx["stop_on_none"] = Runtime(f)["stop_on_none"]

\* Built with stop_on_none=False and called on None with {'stop_on_none': True}:
\* the first function was still invoked on None, and saw True in its context.
C10_Witness ==
    \E c \in Callers :
        /\ InCompose(c) /\ frame[c].pc = "done"
        /\ "stop_on_none" \in DOMAIN kwargs0 /\ kwargs0["stop_on_none"] = "False"
        /\ frame[c].loader_context = Ctx("stop_on_none" :> "True")
        /\ frame[c].arg = None
        /\ Len(frame[c].log) = 2
        /\ frame[c].log[1].arg = None
        /\ frame[c].log[1].bound
        /\ frame[c].log[1].ctx["stop_on_none"] = "True"

====
